---- MODULE Spec2Model ----
(***************************************************************************)
(* SQL lineage graph builder, backend/app/lineage.py.                      *)
(*                                                                         *)
(* compute_lineage(sql, dialect, bq) is modelled as a pipeline of stages   *)
(* over the AST the external parser returns.  Identifiers that the code    *)
(* handles as dotted strings ("p.ds.t", "o.id") are sequences of segments  *)
(* (<<"p","ds","t">>), so that s.split(".") is the sequence itself and     *)
(* ".".join(parts) is the identity on sequences of segments.               *)
(***************************************************************************)
EXTENDS Naturals, Sequences, FiniteSets, TLC

\* ------------------------------------------------------------------ bounds
\* number of CTEs of an input of the CTE family
MaxCtes == 3
\* number of table references in the body of one CTE
MaxRefs == 2
\* number of joins of the main select of an input of the main family
MaxJoins == 2
\* number of projections of the main select of an input of the main family
MaxProj == 2
\* the readings of the clock run from 1 to MaxTime
MaxTime == 2
\* threads that call _get_dataset_location on one service object
MaxCallers == 2

\* ------------------------------------------------------------ generic helpers
SeqToSet(s) == {s[i] : i \in DOMAIN s}

Last(s) == s[Len(s)]

RECURSIVE SetToSeq(_)
SetToSeq(S) ==
  IF S = {} THEN <<>>
  ELSE LET x == CHOOSE y \in S : TRUE IN <<x>> \o SetToSeq(S \ {x})

\* the elements of a set of numbers, smallest first
RECURSIVE Ascending(_)
Ascending(S) ==
  IF S = {} THEN <<>>
  ELSE LET x == CHOOSE y \in S : \A z \in S : y <= z IN <<x>> \o Ascending(S \ {x})

RECURSIVE ConcatAll(_)
ConcatAll(ss) == IF ss = <<>> THEN <<>> ELSE Head(ss) \o ConcatAll(Tail(ss))

\* ------------------------------------------------------------------ the AST
\* Table node: name = [catalog, db, table] segments present, alias "" if none.
Tbl(name, alias) == [name |-> name, alias |-> alias]

\* Join node.  on: <<>> if absent, else a one-element sequence holding the
\* sequence of EQ nodes of the ON expression in traversal order; using: the
\* list of identifiers of USING (...), <<>> if absent.
Join(this, kind, on, using) == [this |-> this, kind |-> kind, on |-> on, using |-> using]

\* Select node: from is <<>> or <<table>>.
Select(from, joins, exprs, group, where) ==
  [from |-> from, joins |-> joins, expressions |-> exprs, group |-> group, where |-> where]

\* the names written in WITH clauses, in order
CteNames == <<"a", "b", "c", "d">>

\* ----------------------------------------------------------- traversal
\* expr.find_all(exp.Table) below one Select: FROM's table, then each join's.
TablesOfSelect(sel) == sel.from \o [i \in 1..Len(sel.joins) |-> sel.joins[i].this]

\* expr.find_all(exp.Table) over the statement (breadth first): the main
\* select's tables are nearer the root than those of the CTE bodies.
FindAllTables(ast) ==
  TablesOfSelect(ast.select) \o
  ConcatAll([i \in 1..Len(ast.with) |-> TablesOfSelect(ast.with[i].this)])

\* expr.find_all(exp.Join), with the Select each join hangs under (j.parent)
JoinsOfSelect(sel) == [i \in 1..Len(sel.joins) |-> [j |-> sel.joins[i], parent |-> sel]]

FindAllJoins(ast) ==
  JoinsOfSelect(ast.select) \o
  ConcatAll([i \in 1..Len(ast.with) |-> JoinsOfSelect(ast.with[i].this)])

\* ---------------------------------------------------- the qualify pass
\* the identifiers that occur in column references
Idents == {"o", "c", "i", "a", "b", "id", "amount", "customer_id", "orders", "customers", "sku", "p", "ds"}

\* the text of each identifier between quote characters, and back
QuotedText == [i \in Idents |-> "\"" \o i \o "\""]

UnquotedText == [q \in {QuotedText[i] : i \in Idents} |-> CHOOSE i \in Idents : QuotedText[i] = q]

\* Identifier text once quote_identifiers has marked it quoted; an identifier
\* that is quoted already stays as it is
Quote(s) == IF s \in Idents THEN QuotedText[s] ELSE s

\* _clean_identifier on one segment: the quote characters are removed
CleanSegment(seg) == IF seg \in DOMAIN UnquotedText THEN UnquotedText[seg] ELSE seg

QuoteCol(col) == [k \in DOMAIN col |-> Quote(col[k])]

\* Table.alias_or_name
TableAliasOrName(t) == IF t.alias # "" THEN t.alias ELSE Last(t.name)

\* an unqualified column is given the only source of its scope as qualifier
QualifyCol(col, sel) ==
  IF Len(col) = 1 /\ Len(TablesOfSelect(sel)) = 1
    THEN QuoteCol(<<TableAliasOrName(TablesOfSelect(sel)[1])>> \o col)
    ELSE QuoteCol(col)

QualifyTable(t) == Tbl(t.name, TableAliasOrName(t))

QualifyJoin(j, sel) ==
  Join(QualifyTable(j.this), j.kind,
       [n \in DOMAIN j.on |->
          [k \in DOMAIN j.on[n] |->
             [j.on[n][k] EXCEPT !.left = QualifyCol(@, sel),
                                !.right = QualifyCol(@, sel)]]],
       j.using)

QualifySelect(sel) ==
  Select([k \in DOMAIN sel.from |-> QualifyTable(sel.from[k])],
         [k \in DOMAIN sel.joins |-> QualifyJoin(sel.joins[k], sel)],
         [k \in DOMAIN sel.expressions |->
            [sel.expressions[k] EXCEPT
               !.cols = [m \in DOMAIN @ |-> QualifyCol(@[m], sel)]]],
         [k \in DOMAIN sel.group |-> QualifyCol(sel.group[k], sel)],
         [k \in DOMAIN sel.where |->
            [sel.where[k] EXCEPT !.col = QualifyCol(@, sel)]])

\* the AST the pass returns when it succeeds
QualifiedAst(ast) ==
  [with |-> [k \in DOMAIN ast.with |->
               [alias |-> ast.with[k].alias, this |-> QualifySelect(ast.with[k].this)]],
   select |-> QualifySelect(ast.select)]

\* the column references of the ON expression of one Join
ColumnsOfJoin(j) ==
  UNION {UNION {{j.on[n][k].left, j.on[n][k].right} : k \in DOMAIN j.on[n]} : n \in DOMAIN j.on}

\* the column references of one Select
ColumnsOfSelect(sel) ==
  UNION {SeqToSet(sel.expressions[k].cols) : k \in DOMAIN sel.expressions}
  \cup SeqToSet(sel.group)
  \cup {sel.where[k].col : k \in DOMAIN sel.where}
  \cup UNION {ColumnsOfJoin(sel.joins[k]) : k \in DOMAIN sel.joins}

\* the pass raises when two sources of a scope go by the same name, when a
\* column reference cannot be given a qualifier, when its qualifier names no
\* source of the scope, and when it has to expand USING (...) without the
\* schema of the joined tables
SelectUnresolved(sel) ==
  \/ \E k, m \in DOMAIN TablesOfSelect(sel) :
       k # m /\ TableAliasOrName(TablesOfSelect(sel)[k]) = TableAliasOrName(TablesOfSelect(sel)[m])
  \/ Len(TablesOfSelect(sel)) # 1 /\ \E c \in ColumnsOfSelect(sel) : Len(c) = 1
  \/ \E c \in ColumnsOfSelect(sel) :
       Len(c) >= 2 /\ \A k \in DOMAIN TablesOfSelect(sel) :
                        CleanSegment(c[Len(c) - 1]) # TableAliasOrName(TablesOfSelect(sel)[k])
  \/ \E k \in DOMAIN sel.joins : sel.joins[k].using # <<>>

QualifyThrows(ast) ==
  \/ SelectUnresolved(ast.select)
  \/ \E k \in DOMAIN ast.with : SelectUnresolved(ast.with[k].this)

\* ------------------------------------------------------------ lineage.py
\* _fq_table: ".".join of the catalog, db and table parts that are present
FqTable(t) == t.name

\* _collect_cte_map: name -> body, a later CTE of the same name wins
CollectCteMap(ast) ==
  LET names == {ast.with[i].alias : i \in DOMAIN ast.with}
  IN [n \in names |->
        LET i == CHOOSE k \in DOMAIN ast.with :
                   /\ ast.with[k].alias = n
                   /\ \A m \in DOMAIN ast.with : ast.with[m].alias = n => m <= k
        IN ast.with[i].this]

\* `name in exclude or short in exclude` of _collect_tables_excluding; exclude
\* holds CTE names, which are single segments
IsCteRef(name, exclude) ==
  \/ (Len(name) = 1 /\ name[1] \in exclude)
  \/ Last(name) \in exclude

\* variant of CollectTablesExcluding: the CTE references are kept among the
\* base tables
CollectTablesKeepingRefs(tables, exclude) ==
  LET named == {FqTable(tables[i]) : i \in DOMAIN tables} \ {<<>>}
  IN [base |-> named,
      refs |-> {Last(nm) : nm \in {m \in named : IsCteRef(m, exclude)}}]

\* _collect_tables_excluding over a sequence of Table nodes
CollectTablesExcluding(tables, exclude) ==
  LET named == {FqTable(tables[i]) : i \in DOMAIN tables} \ {<<>>}
  IN [base |-> {nm \in named : ~IsCteRef(nm, exclude)},
      refs |-> {Last(nm) : nm \in {m \in named : IsCteRef(m, exclude)}}]

\* _expand_cte_base_dependencies, initial pass (lines 71-80)
InitialBaseDeps(cte_map) ==
  [n \in DOMAIN cte_map |->
     CollectTablesExcluding(TablesOfSelect(cte_map[n]), DOMAIN cte_map).base]

InitialCteRefs(cte_map) ==
  [n \in DOMAIN cte_map |->
     CollectTablesExcluding(TablesOfSelect(cte_map[n]), DOMAIN cte_map).refs]

\* variant of UpdateFromRef: the set is assigned, not updated
UpdateFromRefAssigning(deps, name, ref) ==
  IF ref \in DOMAIN deps THEN [deps EXCEPT ![name] = deps[ref]] ELSE deps

\* lines 87-91 for one ref: base_deps[name].update(base_deps[ref])
UpdateFromRef(deps, name, ref) ==
  IF ref \in DOMAIN deps THEN [deps EXCEPT ![name] = @ \cup deps[ref]] ELSE deps

\* lines 86-91: the inner loop over the refs of one name
RECURSIVE UpdateFromRefs(_, _, _)
UpdateFromRefs(deps, name, refs) ==
  IF refs = {} THEN deps
  ELSE LET r == CHOOSE x \in refs : TRUE
       IN UpdateFromRefs(UpdateFromRef(deps, name, r), name, refs \ {r})

\* variant of Grew: the length is compared with itself, so no pass follows the first
GrewStale(before, after, name) == Cardinality(before[name]) # Cardinality(before[name])

\* variant of Grew: a set that gained one table does not count as changed
GrewByMoreThanOne(before, after, name) == Cardinality(after[name]) > Cardinality(before[name]) + 1

\* line 90: the set of `name` has another length than before
Grew(before, after, name) == Cardinality(after[name]) # Cardinality(before[name])

\* sorted(): the ids the inputs can name, in the order of Python's string
\* comparison of their dotted text
IdOrder == <<
  <<"a">>, <<"b">>, <<"c">>, <<"customers">>, <<"d">>, <<"ds">>, <<"orders">>,
  <<"p">>, <<"p", "ds">>, <<"p", "ds", "a">>, <<"t1">>, <<"t2">> >>

Sorted(S) == SelectSeq(IdOrder, LAMBDA n : n \in S)

\* a dict with string keys: d[k] = v
DictPut(d, k, v) == [x \in DOMAIN d \cup {k} |-> IF x = k THEN v ELSE d[x]]

\* d.setdefault(k, v)
DictSetDefault(d, k, v) == IF k \in DOMAIN d THEN d ELSE DictPut(d, k, v)

\* _build_alias_map lines 101-110: the aliased tables, later ones overwrite
RECURSIVE AliasesOfTables(_, _)
AliasesOfTables(tables, m) ==
  IF tables = <<>> THEN m
  ELSE LET t == Head(tables)
       IN AliasesOfTables(Tail(tables),
            IF t.alias # "" /\ FqTable(t) # <<>> THEN DictPut(m, t.alias, FqTable(t)) ELSE m)

\* _build_alias_map lines 112-115: short names of the sources not yet keys
RECURSIVE ShortNamesOfSources(_, _)
ShortNamesOfSources(srcs, m) ==
  IF srcs = <<>> THEN m
  ELSE ShortNamesOfSources(Tail(srcs), DictSetDefault(m, Last(Head(srcs)), Head(srcs)))

BuildAliasMap(ast, sources) ==
  ShortNamesOfSources(sources, AliasesOfTables(FindAllTables(ast), [x \in {} |-> <<>>]))

\* compute_lineage lines 298-303: a CTE with one base is an alias of that base
RECURSIVE AliasSingleBaseCtes(_, _, _)
AliasSingleBaseCtes(m, deps, names) ==
  IF names = {} THEN m
  ELSE LET n == CHOOSE x \in names : TRUE
       IN AliasSingleBaseCtes(
            IF Cardinality(deps[n]) = 1
              THEN DictSetDefault(m, n, CHOOSE b \in deps[n] : TRUE) ELSE m,
            deps, names \ {n})

\* _join_details: the parser keeps USING (...) as a Python list of identifiers,
\* and line 147 calls .sql() and line 174 .find_all() on it
JoinRaises(j) == j.using # <<>>

\* variant of LeftTableOf: without the break the last Table below the parent is kept
LeftTableOfNoBreak(parent) ==
  IF TablesOfSelect(parent) = <<>> THEN <<>> ELSE FqTable(Last(TablesOfSelect(parent)))

\* _join_details lines 153-163: j.parent is the Select the join hangs under,
\* never a From; the fallback takes the first Table below the parent
LeftTableOf(parent) ==
  IF TablesOfSelect(parent) = <<>> THEN <<>> ELSE FqTable(Head(TablesOfSelect(parent)))

\* _join_details lines 165-171: one pair for each EQ found under ON
PairsOf(j) ==
  IF j.on = <<>> THEN <<>>
  ELSE [k \in DOMAIN j.on[1] |-> [left |-> j.on[1][k].left, right |-> j.on[1][k].right]]

\* _join_details lines 147-151 and 181-188: the record of one join; on is the
\* text of the ON expression (<<>> for ""), kind comes upper-cased from the parser
JoinRecord(j, parent) ==
  [left_table |-> LeftTableOf(parent),
   right_table |-> FqTable(j.this),
   right_alias |-> j.this.alias,
   type |-> j.kind,
   on |-> IF j.on = <<>> THEN <<>> ELSE j.on[1],
   pairs |-> PairsOf(j)]

JoinDetails(ast) ==
  LET js == FindAllJoins(ast) IN [k \in DOMAIN js |-> JoinRecord(js[k].j, js[k].parent)]

JoinDetailsRaises(ast) ==
  LET js == FindAllJoins(ast) IN \E k \in DOMAIN js : JoinRaises(js[k].j)

\* compute_lineage lines 309-316 for one operand
RewriteOperand(tbl, deps) ==
  IF tbl # <<>> /\ Last(tbl) \in DOMAIN deps /\ Cardinality(deps[Last(tbl)]) = 1
    THEN CHOOSE b \in deps[Last(tbl)] : TRUE
    ELSE tbl

RewriteJoins(joins, deps) ==
  [k \in DOMAIN joins |->
     [joins[k] EXCEPT !.left_table = RewriteOperand(@, deps),
                      !.right_table = RewriteOperand(@, deps)]]

\* _collect_filters: texts of the WHERE expressions
CollectFilters(ast) ==
  ast.select.where \o ConcatAll([k \in DOMAIN ast.with |-> ast.with[k].this.where])

\* _collect_group_by: texts of the GROUP BY expressions
CollectGroupBy(ast) ==
  ast.select.group \o ConcatAll([k \in DOMAIN ast.with |-> ast.with[k].this.group])

\* proj.alias_or_name: the alias, else the name of a bare column, else the
\* text of a call's literal argument
AliasOrName(p) ==
  IF p.alias # "" THEN p.alias
  ELSE IF p.fn = "" THEN (IF p.cols = <<>> THEN "" ELSE Last(p.cols[1]))
  ELSE p.lit

\* label.lower()
Lower(s) == IF s = "X" THEN "x" ELSE IF s = "Y" THEN "y" ELSE s

OutputSlots == {"x", "y", "label", "value"}

\* A text is kept as the record of what it is made of: the call name, the
\* column references, the literal argument and the alias after AS ("" if none).
\* proj.sql() of line 222 is the text of the whole projection: an aliased
\* projection `E AS a` is an Alias node, whose text ends in `AS a`
ProjSql(p) == [fn |-> p.fn, cols |-> p.cols, lit |-> p.lit, alias |-> p.alias]

\* _collect_outputs
RECURSIVE OutputsOf(_, _)
OutputsOf(projs, out) ==
  IF projs = <<>> THEN out
  ELSE LET p == Head(projs)
           a == AliasOrName(p)
       IN OutputsOf(Tail(projs),
            IF a # "" /\ Lower(a) \in OutputSlots THEN DictPut(out, Lower(a), ProjSql(p)) ELSE out)

CollectOutputs(ast) == OutputsOf(ast.select.expressions, [x \in {} |-> <<>>])

\* ------------------------------------------------- graph assembly
Node(id, type) == [id |-> id, type |-> type]

Edge(src, tgt, type) == [source |-> src, target |-> tgt, type |-> type]

NodeIds(nodes) == {nodes[k].id : k \in DOMAIN nodes}

\* d.setdefault(n.id, n) on a dict kept as the sequence of its values
NodesSetDefault(nodes, n) == IF n.id \in NodeIds(nodes) THEN nodes ELSE Append(nodes, n)

\* variant of NodesPut: the nodes are kept as a list, a repeated id is appended
NodesPutAppending(nodes, n) == Append(nodes, n)

\* d[n.id] = n on a dict kept as the sequence of its values: an existing key
\* keeps its place and takes the new value
NodesPut(nodes, n) ==
  IF n.id \in NodeIds(nodes)
    THEN [k \in DOMAIN nodes |-> IF nodes[k].id = n.id THEN n ELSE nodes[k]]
    ELSE Append(nodes, n)

RECURSIVE NodesPutAll(_, _)
NodesPutAll(d, nodes) ==
  IF nodes = <<>> THEN d ELSE NodesPutAll(NodesPut(d, Head(nodes)), Tail(nodes))

RECURSIVE NodesSetDefaultAll(_, _)
NodesSetDefaultAll(d, nodes) ==
  IF nodes = <<>> THEN d ELSE NodesSetDefaultAll(NodesSetDefault(d, Head(nodes)), Tail(nodes))

\* _collect_column_lineage lines 243-248 for the columns of one projection
RECURSIVE ProjectionLineage(_, _, _)
ProjectionLineage(acc, cols, alias) ==
  IF cols = <<>> THEN acc
  ELSE ProjectionLineage(
         [nodes |-> NodesSetDefault(NodesSetDefault(acc.nodes, Node(Head(cols), "column")),
                                    Node(<<alias>>, "output")),
          edges |-> Append(acc.edges, Edge(Head(cols), <<alias>>, "projection"))],
         Tail(cols), alias)

\* _collect_column_lineage lines 238-248
RECURSIVE ProjectionsLineage(_, _)
ProjectionsLineage(acc, projs) ==
  IF projs = <<>> THEN acc
  ELSE ProjectionsLineage(
         IF AliasOrName(Head(projs)) # ""
           THEN ProjectionLineage(acc, Head(projs).cols, AliasOrName(Head(projs)))
           ELSE acc,
         Tail(projs))

\* _collect_column_lineage lines 253-258 for the EQ nodes of one ON expression
RECURSIVE EqualityLineage(_, _)
EqualityLineage(acc, eqs) ==
  IF eqs = <<>> THEN acc
  ELSE EqualityLineage(
         [nodes |-> NodesSetDefault(NodesSetDefault(acc.nodes, Node(Head(eqs).left, "column")),
                                    Node(Head(eqs).right, "column")),
          edges |-> Append(acc.edges, Edge(Head(eqs).left, Head(eqs).right, "join"))],
         Tail(eqs))

\* _collect_column_lineage lines 251-263
RECURSIVE JoinsLineage(_, _)
JoinsLineage(acc, js) ==
  IF js = <<>> THEN acc
  ELSE JoinsLineage(
         IF Head(js).j.on # <<>> THEN EqualityLineage(acc, Head(js).j.on[1]) ELSE acc,
         Tail(js))

\* _collect_column_lineage: (column_nodes.values(), column_edges)
CollectColumnLineage(ast) ==
  JoinsLineage(ProjectionsLineage([nodes |-> <<>>, edges |-> <<>>], ast.select.expressions),
               FindAllJoins(ast))

CleanIdentifier(id) == [k \in DOMAIN id |-> CleanSegment(id[k])]

\* variant of InferTableFromColumn: an id without qualifier is given a table
\* of the alias map
InferTableGuessing(col_id, alias_to_table) ==
  LET parts == CleanIdentifier(col_id)
  IN IF Len(parts) >= 4 THEN SubSeq(parts, 1, 3)
     ELSE IF Len(parts) = 3 THEN SubSeq(parts, 1, 2)
     ELSE IF Len(parts) = 2
       THEN (IF parts[1] \in DOMAIN alias_to_table THEN alias_to_table[parts[1]] ELSE <<>>)
     ELSE IF DOMAIN alias_to_table # {}
       THEN alias_to_table[CHOOSE q \in DOMAIN alias_to_table : TRUE]
     ELSE <<>>

\* _infer_table_from_column; <<>> is None
InferTableFromColumn(col_id, alias_to_table) ==
  LET parts == CleanIdentifier(col_id)
  IN IF Len(parts) >= 4 THEN SubSeq(parts, 1, 3)
     ELSE IF Len(parts) = 3 THEN SubSeq(parts, 1, 2)
     ELSE IF Len(parts) = 2
       THEN (IF parts[1] \in DOMAIN alias_to_table THEN alias_to_table[parts[1]] ELSE <<>>)
     ELSE <<>>

\* _resolve_base_tables_for_column (lines 342-357)
ResolveBaseTablesForColumn(col_id, alias_map, deps) ==
  LET table_id == InferTableFromColumn(col_id, alias_map)
      parts == CleanIdentifier(col_id)
  IN IF table_id # <<>>
       THEN (IF Last(table_id) \in DOMAIN deps /\ Cardinality(deps[Last(table_id)]) >= 1
               THEN Sorted(deps[Last(table_id)])
               ELSE <<table_id>>)
       ELSE IF Len(parts) >= 2 /\ parts[1] \in DOMAIN deps /\ Cardinality(deps[parts[1]]) >= 1
         THEN Sorted(deps[parts[1]])
         ELSE <<>>

\* lines 360-363
ContainsEdges(col_nodes, alias_map, deps) ==
  ConcatAll([k \in DOMAIN col_nodes |->
    LET bases == ResolveBaseTablesForColumn(col_nodes[k].id, alias_map, deps)
    IN [m \in DOMAIN bases |-> Edge(bases[m], col_nodes[k].id, "contains")]])

\* lines 366-372
DerivesEdges(col_edges, alias_map, deps) ==
  LET proj_edges == SelectSeq(col_edges, LAMBDA e : e.type = "projection")
  IN ConcatAll([k \in DOMAIN proj_edges |->
       LET bases == ResolveBaseTablesForColumn(proj_edges[k].source, alias_map, deps)
       IN [m \in DOMAIN bases |-> Edge(bases[m], proj_edges[k].target, "derives")]])

\* lines 375-379
JoinTableEdges(joins) ==
  LET both == SelectSeq(joins, LAMBDA j : j.left_table # <<>> /\ j.right_table # <<>>)
  IN [k \in DOMAIN both |->
        [source |-> both[k].left_table, target |-> both[k].right_table,
         type |-> "join_table", on |-> both[k].on]]

\* _split_fqn; "" is None; bq is [present, project_id]
SplitFqn(table_id, bq) ==
  LET project == IF bq.present THEN bq.project_id ELSE ""
  IN IF Len(table_id) >= 3
       THEN [proj |-> table_id[1], ds |-> table_id[2], tb |-> table_id[3]]
     ELSE IF Len(table_id) = 2
       THEN [proj |-> project, ds |-> table_id[1], tb |-> table_id[2]]
     ELSE IF Len(table_id) = 1
       THEN [proj |-> project, ds |-> "", tb |-> table_id[1]]
     ELSE [proj |-> "", ds |-> "", tb |-> ""]

\* lines 409-414: the ids of the projects and of the datasets of the sources
Databases(sources, bq) ==
  {<<SplitFqn(sources[k], bq).proj>> : k \in {i \in DOMAIN sources : SplitFqn(sources[i], bq).proj # ""}}

Schemas(sources, bq) ==
  {<<SplitFqn(sources[k], bq).proj, SplitFqn(sources[k], bq).ds>>
     : k \in {i \in DOMAIN sources :
                SplitFqn(sources[i], bq).proj # "" /\ SplitFqn(sources[i], bq).ds # ""}}

\* What the provider answers when a lookup succeeds.  The lookups are methods
\* of the object passed as bq; the answers are those of a catalog in which
\* every table has 7 rows and a column sku.
\* line 422: bq.get_table_row_count_info_schema(proj, ds, tb)
InfoSchemaRowCount(t) == 7

\* line 429: bq.get_columns_info_schema(proj, ds, tb), name -> entry
InfoSchemaColumns(t) == [c \in {"sku"} |-> [dataType |-> "STRING", description |-> <<>>]]

\* line 434: the schema of bq.client.get_table(...), fields with name,
\* field_type and description (<<>> is None)
TableObjectSchema(t) ==
  << [name |-> "sku", field_type |-> "STRING", description |-> <<"stock unit">>],
     [name |-> "id", field_type |-> "INT64", description |-> <<>>] >>

\* line 416: the lookups are made for a table with project, dataset and name
LookedUp(t, bq) ==
  /\ bq.present
  /\ SplitFqn(t, bq).proj # "" /\ SplitFqn(t, bq).ds # "" /\ SplitFqn(t, bq).tb # ""

\* variant of RowCountOf: the value of a lookup that raised is not reset
RowCountOfUnguarded(t, bq) == IF LookedUp(t, bq) THEN <<InfoSchemaRowCount(t)>> ELSE <<>>

\* lines 420-425: rc, None (<<>>) when the lookup raises
RowCountOf(t, bq) ==
  IF LookedUp(t, bq) /\ t \notin bq.rc_raises THEN <<InfoSchemaRowCount(t)>> ELSE <<>>

\* lines 435-438 over the fields of the Table object
RECURSIVE MergeSchema(_, _)
MergeSchema(cols, fields) ==
  IF fields = <<>> THEN cols
  ELSE LET f == Head(fields)
           had == DictSetDefault(cols, f.name, [dataType |-> f.field_type, description |-> <<>>])
       IN MergeSchema(
            IF f.description # <<>>
              THEN [had EXCEPT ![f.name] = [@ EXCEPT !.description = f.description]]
              ELSE had,
            Tail(fields))

\* lines 427-440: cols, {} when the lookup raises, then the fields of the
\* Table object unless that lookup raises
ColumnsOf(t, bq) ==
  LET info == IF t \in bq.cols_raises THEN [c \in {} |-> <<>>] ELSE InfoSchemaColumns(t)
  IN IF t \in bq.table_raises THEN info ELSE MergeSchema(info, TableObjectSchema(t))

\* lines 415-445: meta of one source; columns is <<>> when the key is absent
TableMeta(t, bq) ==
  [database |-> SplitFqn(t, bq).proj,
   schema |-> SplitFqn(t, bq).ds,
   rowCount |-> RowCountOf(t, bq),
   owner |-> "",
   columns |-> IF LookedUp(t, bq) THEN <<ColumnsOf(t, bq)>> ELSE <<>>]

\* dict.update: the keys of fields are set on the node
NodeUpdate(n, fields) == fields @@ n

\* lines 446-447 for every source: the node with the id of the table takes
\* database, schema, rowCount and owner
RECURSIVE EnrichTables(_, _, _)
EnrichTables(node_by_id, srcs, bq) ==
  IF srcs = <<>> THEN node_by_id
  ELSE LET t == Head(srcs)
           meta == TableMeta(t, bq)
       IN EnrichTables(
            [k \in DOMAIN node_by_id |->
               IF node_by_id[k].id = t
                 THEN NodeUpdate(node_by_id[k],
                        [database |-> meta.database, schema |-> meta.schema,
                         rowCount |-> meta.rowCount, owner |-> meta.owner])
                 ELSE node_by_id[k]],
            Tail(srcs), bq)

\* lines 469-477: the entry of the first base table that has the column,
\* <<>> if none has; table_meta_cache holds the sources only
RECURSIVE FindColumnMeta(_, _, _, _)
FindColumnMeta(col_name, base_tables, srcs, bq) ==
  IF base_tables = <<>> THEN <<>>
  ELSE LET bt == Head(base_tables)
           cols == IF bt \in SeqToSet(srcs) /\ TableMeta(bt, bq).columns # <<>>
                     THEN TableMeta(bt, bq).columns[1] ELSE [c \in {} |-> <<>>]
       IN IF col_name \in DOMAIN cols THEN <<cols[col_name]>>
          ELSE FindColumnMeta(col_name, Tail(base_tables), srcs, bq)

\* lines 465-480 for one node
EnrichColumn(n, srcs, alias_map, deps, bq) ==
  IF n.type # "column" THEN n
  ELSE LET found == FindColumnMeta(Last(CleanIdentifier(n.id)),
                                   ResolveBaseTablesForColumn(n.id, alias_map, deps), srcs, bq)
       IN IF found = <<>> THEN NodeUpdate(n, [pii |-> FALSE])
          ELSE NodeUpdate(n, [dataType |-> found[1].dataType,
                              description |-> found[1].description, pii |-> FALSE])

EnrichColumns(node_by_id, srcs, alias_map, deps, bq) ==
  [k \in DOMAIN node_by_id |-> EnrichColumn(node_by_id[k], srcs, alias_map, deps, bq)]

\* lines 450-455
PhysicalNodes(node_by_id, sources, bq) ==
  LET dbs == Sorted(Databases(sources, bq))
      schs == Sorted(Schemas(sources, bq))
  IN NodesSetDefaultAll(
       NodesSetDefaultAll(node_by_id, [k \in DOMAIN dbs |-> Node(dbs[k], "database")]),
       [k \in DOMAIN schs |-> Node(schs[k], "schema")])

\* lines 456-462
PhysicalEdges(sources, bq) ==
  LET schs == Sorted(Schemas(sources, bq))
      within == SelectSeq(sources,
                  LAMBDA t : SplitFqn(t, bq).proj # "" /\ SplitFqn(t, bq).ds # "")
  IN [k \in DOMAIN schs |-> Edge(<<schs[k][1]>>, schs[k], "contains")]
     \o [k \in DOMAIN within |->
           Edge(<<SplitFqn(within[k], bq).proj, SplitFqn(within[k], bq).ds>>, within[k], "contains")]

\* line 485: j.get('id') or f"join_{idx + 1}"; a join record has no key 'id'
JoinNodeId(j, idx) ==
  IF "id" \in DOMAIN j /\ j.id # <<>> THEN j.id ELSE <<"join_" \o ToString(idx)>>

JoinNodeIds(joins) == [k \in DOMAIN joins |-> JoinNodeId(joins[k], k)]

\* lines 484-494
JoinNodes(node_by_id, joins) ==
  NodesPutAll(node_by_id, [k \in DOMAIN joins |-> Node(JoinNodeId(joins[k], k), "join")])

\* lines 496-501
JoinInputEdges(joins) ==
  ConcatAll([k \in DOMAIN joins |->
    ConcatAll([m \in DOMAIN joins[k].pairs |->
      (IF joins[k].pairs[m].left # <<>>
         THEN <<Edge(joins[k].pairs[m].left, JoinNodeId(joins[k], k), "join_input")>> ELSE <<>>)
      \o
      (IF joins[k].pairs[m].right # <<>>
         THEN <<Edge(joins[k].pairs[m].right, JoinNodeId(joins[k], k), "join_input")>> ELSE <<>>)])])

AggFunctions == {"AVG", "SUM", "COUNT", "MIN", "MAX"}

\* _is_agg: the text must be NAME(...) up to its end, so the text of an
\* aliased projection, which ends in `AS alias`, does not match
IsAgg(expr_sql) == expr_sql.alias = "" /\ expr_sql.fn \in AggFunctions

\* lines 515-521: the slots, value before y, whose text is an aggregate call
AggSlots(outputs) ==
  SelectSeq(<<"value", "y">>, LAMBDA key : key \in DOMAIN outputs /\ IsAgg(outputs[key]))

\* lines 509-511 and 524: the label FUNC(args) of the node of one slot; the
\* generator writes the names of these functions in upper case already
AggLabel(expr_sql) == [fn |-> expr_sql.fn, cols |-> expr_sql.cols, lit |-> expr_sql.lit, alias |-> ""]

\* line 523
AggNodeIds(outputs) == [k \in DOMAIN AggSlots(outputs) |-> <<"aggregation_" \o ToString(k)>>]

\* lines 526-537 for each aggregation node
AggEdges(outputs, joins) ==
  LET slots == AggSlots(outputs)
      aids == AggNodeIds(outputs)
      jids == JoinNodeIds(joins)
  IN ConcatAll([k \in DOMAIN slots |->
       (IF outputs[slots[k]].cols # <<>>
          THEN <<Edge(outputs[slots[k]].cols[1], aids[k], "measure")>> ELSE <<>>)
       \o [m \in DOMAIN jids |-> Edge(jids[m], aids[k], "join_output")]])

\* line 524: the aggregation nodes, in the order value, y
AggNodes(outputs) ==
  [k \in DOMAIN AggSlots(outputs) |->
     [id |-> AggNodeIds(outputs)[k], type |-> "aggregation",
      label |-> AggLabel(outputs[AggSlots(outputs)[k]])]]

KpiId == <<"kpi_1">>

\* lines 541-549: the kpi node; definition is <<>> for "" and else holds the
\* text of slot value or, failing that, y; now is datetime.now() of line 547
KpiNode(outputs, now) ==
  [id |-> KpiId, type |-> "kpi",
   definition |-> IF "value" \in DOMAIN outputs THEN <<outputs["value"]>>
                  ELSE IF "y" \in DOMAIN outputs THEN <<outputs["y"]>>
                  ELSE <<>>,
   owner |-> "Naveen Alapati",
   lastModified |-> now,
   downstream |-> <<>>]

\* lines 326-339 and 402: the list of nodes and its index by id
InitialNodes(sources, col_nodes) ==
  [k \in DOMAIN sources |-> Node(sources[k], "table")] \o col_nodes

\* lines 402-565: node_by_id at the end of the assembly
NodeById(sources, col_nodes, alias_map, deps, joins, group_by, outputs, bq, now) ==
  LET indexed == NodesPutAll(<<>>, InitialNodes(sources, col_nodes))
      tables == EnrichTables(indexed, sources, bq)
      physical == PhysicalNodes(tables, sources, bq)
      columns == EnrichColumns(physical, sources, alias_map, deps, bq)
      joined == JoinNodes(columns, joins)
      aids == AggNodeIds(outputs)
      aggregated == NodesPutAll(joined, AggNodes(outputs))
      kpi == NodesPut(aggregated, KpiNode(outputs, now))
  IN NodesSetDefaultAll(kpi, [k \in DOMAIN group_by |-> Node(group_by[k], "column")])

\* line 565: nodes = list(node_by_id.values())
FinalNodes(sources, col_nodes, alias_map, deps, joins, group_by, outputs, bq, now) ==
  NodeById(sources, col_nodes, alias_map, deps, joins, group_by, outputs, bq, now)

\* variant of DimensionEdges: the edges run from the kpi to the expressions
DimensionEdgesFromKpi(group_by) == [k \in DOMAIN group_by |-> Edge(KpiId, group_by[k], "dimension")]

\* lines 557-558: one dimension edge from each GROUP BY expression to the kpi
DimensionEdges(group_by) == [k \in DOMAIN group_by |-> Edge(group_by[k], KpiId, "dimension")]

\* the edges in the order the code appends them
FinalEdges(sources, lineage, alias_map, deps, joins, group_by, outputs, bq) ==
  LET aids == AggNodeIds(outputs)
  IN lineage.edges
     \o ContainsEdges(lineage.nodes, alias_map, deps)
     \o DerivesEdges(lineage.edges, alias_map, deps)
     \o JoinTableEdges(joins)
     \o PhysicalEdges(sources, bq)
     \o JoinInputEdges(joins)
     \o AggEdges(outputs, joins)
     \o DimensionEdges(group_by)
     \o [k \in DOMAIN aids |-> Edge(aids[k], KpiId, "derives")]

\* lines 575-591; the sorted lists are kept as the sets of their elements
Hierarchy(nodes, sources, joins, filters, outputs, bq) ==
  [physical |-> [databases |-> Databases(sources, bq),
                 schemas |-> Schemas(sources, bq),
                 tables |-> SeqToSet(sources),
                 columns |-> {nodes[k].id : k \in {i \in DOMAIN nodes : nodes[i].type = "column"}}],
   logical |-> [joins |-> JoinNodeIds(joins),
                filters |-> filters,
                aggregations |-> AggNodeIds(outputs)],
   semantic |-> [kpis |-> <<KpiId>>, dashboards |-> <<>>]]

\* lines 568-572; now is datetime.now() of line 570
Governance(now) == [createdBy |-> "cursor_ai", lastModified |-> now, lineageVersion |-> "1.0"]

\* variant of BuildResult: the key outputs is left out when there are none
BuildResultSparse(sources, joins, filters, group_by, outputs, nodes, edges, governance, hierarchy) ==
  LET common == [returned |-> TRUE, sources |-> sources, joins |-> joins, filters |-> filters,
                 groupBy |-> group_by, graph |-> [nodes |-> nodes, edges |-> edges],
                 nodes |-> nodes, edges |-> edges,
                 governance |-> governance,
                 hierarchy |-> hierarchy]
  IN IF DOMAIN outputs = {} THEN common
     ELSE [k \in DOMAIN common \cup {"outputs"} |->
             IF k = "outputs" THEN <<outputs>> ELSE common[k]]

\* lines 593-608; outputs is <<>> for None, else <<the dict>>
BuildResult(sources, joins, filters, group_by, outputs, nodes, edges, governance, hierarchy) ==
  [returned |-> TRUE,
   sources |-> sources,
   joins |-> joins,
   filters |-> filters,
   groupBy |-> group_by,
   outputs |-> IF DOMAIN outputs = {} THEN <<>> ELSE <<outputs>>,
   graph |-> [nodes |-> nodes, edges |-> edges],
   nodes |-> nodes,
   edges |-> edges,
   governance |-> governance,
   hierarchy |-> hierarchy]

\* ------------------------------------------------------------------ inputs
NoSelect == Select(<<>>, <<>>, <<>>, <<>>, <<>>)

BaseTablesCte == {<<"t1">>, <<"t2">>}

RefPool(n) == {<<CteNames[i]>> : i \in 1..n} \cup BaseTablesCte

\* bodies `SELECT * FROM r1 [JOIN r2 ...]` over at most MaxRefs references
BodyOf(s) ==
  Select(IF s = <<>> THEN <<>> ELSE <<Tbl(s[1], "")>>,
         [i \in 1..(Len(s) - 1) |-> Join(Tbl(s[i + 1], ""), "", <<>>, <<>>)],
         <<>>, <<>>, <<>>)

BodyOptions(n) ==
  {BodyOf(SetToSeq(S)) : S \in {R \in SUBSET RefPool(n) : Cardinality(R) <= MaxRefs}}

\* WITH c1 AS (...), ..., cn AS (...) SELECT * FROM c1
CteFamily ==
  UNION {
    {[with |-> [i \in 1..n |-> [alias |-> CteNames[i], this |-> bodies[i]]],
      select |-> Select(<<Tbl(<<CteNames[1]>>, "")>>, <<>>, <<>>, <<>>, <<>>)]
     : bodies \in [1..n -> BodyOptions(n)]}
    : n \in 1..MaxCtes}

\* a projection: fn "" for a bare expression, cols the Column nodes under it in
\* traversal order, lit the literal argument of a call over a literal
Proj(fn, cols, lit, alias) == [fn |-> fn, cols |-> cols, lit |-> lit, alias |-> alias]

\* an EQ node of an ON expression; under is "" for a comparison that is the
\* expression itself or one of its AND operands, else the operator above it
Eq(l, r) == [left |-> l, right |-> r, under |-> ""]

NotEq(l, r) == [left |-> l, right |-> r, under |-> "NOT"]

ProjPool == <<
  Proj("", << <<"o", "amount">> >>, "", "x"),      \* o.amount AS x
  Proj("SUM", << <<"amount">> >>, "", "y"),        \* SUM(amount) AS y
  Proj("", << <<"c", "id">> >>, "", "orders"),     \* c.id AS orders
  Proj("MAX", <<>>, "y", ""),                      \* MAX('y')
  Proj("", << <<"i", "sku">> >>, "", "label") >>   \* i.sku AS label

JoinPool == <<
  \* JOIN customers c ON o.customer_id = c.id
  Join(Tbl(<<"customers">>, "c"), "", << << Eq(<<"o", "customer_id">>, <<"c", "id">>) >> >>, <<>>),
  \* CROSS JOIN p.ds.a i
  Join(Tbl(<<"p", "ds", "a">>, "i"), "CROSS", <<>>, <<>>),
  \* INNER JOIN b ON id = b.id AND NOT (p.ds.b.id = ds.b.id)
  Join(Tbl(<<"b">>, ""), "INNER",
       << << Eq(<<"id">>, <<"b", "id">>),
             NotEq(<<"p", "ds", "b", "id">>, <<"ds", "b", "id">>) >> >>, <<>>),
  \* JOIN customers USING (id)
  Join(Tbl(<<"customers">>, ""), "", <<>>, <<"id">>) >>

FromPool == {Tbl(<<"orders">>, "o"), Tbl(<<"a">>, "")}

\* WITH a AS (SELECT * FROM t1), b AS (SELECT * FROM a JOIN t2)
WithPool == {
  <<>>,
  << [alias |-> "a", this |-> BodyOf(<< <<"t1">> >>)],
     [alias |-> "b", this |-> BodyOf(<< <<"a">>, <<"t2">> >>)] >> }

\* GROUP BY amount / WHERE o.amount > 0
TailPool == {
  [group |-> <<>>, where |-> <<>>],
  [group |-> << <<"amount">> >>, where |-> << [col |-> <<"o", "amount">>, pred |-> "> 0"] >>] }

\* the subsequences of pool (pool order kept) of at most k elements
SubSeqs(pool, k) ==
  {LET idx == Ascending(I) IN [i \in 1..Len(idx) |-> pool[idx[i]]]
   : I \in {J \in SUBSET (1..Len(pool)) : Cardinality(J) <= k}}

\* a select without FROM has no joins
MainFamily ==
  {a \in {[with |-> w, select |-> Select(f, j, p, t.group, t.where)]
           : w \in WithPool,
             f \in {<<>>} \cup {<<x>> : x \in FromPool},
             j \in SubSeqs(JoinPool, MaxJoins),
             p \in SubSeqs(ProjPool, MaxProj),
             t \in TailPool}
     : a.select.from = <<>> => a.select.joins = <<>>}


\* ------------------------------------------------------------------- state
VARIABLES
  sql,         \* the call's input: what the parser makes of the SQL string
  qualify_mod, \* whether the import of lines 5-9 found the qualify module
  bq,          \* the metadata provider passed in, [present, project_id]
  pc,          \* position in compute_lineage
  parsed,      \* line 270
  qualified,   \* lines 274-284
  qstatus,     \* what the qualify pass did: "skipped", "done" or "threw"
  cte_map,     \* line 287
  base_deps,   \* _expand_cte_base_dependencies: base_deps
  cte_refs,    \* _expand_cte_base_dependencies: cte_refs
  changed,     \* _expand_cte_base_dependencies: changed
  todo,        \* names the for loop of line 85 has still to visit in this pass
  sources,     \* line 293
  alias_map,   \* lines 296-303
  joins,       \* lines 305-316
  result,      \* the returned dict, NoResult before the return
  error,       \* the raised exception, "" if none
  datasets,    \* bq.py: what the API knows, dataset id -> location ("" if unset)
  location_cache, \* bq.py line 18: self._dataset_location_cache
  caller       \* bq.py: the calls of _get_dataset_location, one per thread

input == <<sql, qualify_mod, bq>>
front == <<parsed, qualified, qstatus>>
expand == <<cte_map, base_deps, cte_refs, changed, todo>>
analysis == <<sources, alias_map, joins>>
service == <<datasets, location_cache, caller>>
vars == <<input, pc, front, expand, analysis, result, error, service>>

\* what datetime.now() of lines 547 and 570 can read
Times == 1..MaxTime

NoResult == [returned |-> FALSE]
NoAst == [with |-> <<>>, select |-> NoSelect]
EmptyMap == [n \in {} |-> {}]

\* the object passed as bq: None, or a provider with a project and, for each
\* of its three lookups, the tables for which the lookup raises
NoBq == [present |-> FALSE, project_id |-> "", rc_raises |-> {}, cols_raises |-> {}, table_raises |-> {}]
SomeBq == [present |-> TRUE, project_id |-> "p", rc_raises |-> {}, cols_raises |-> {}, table_raises |-> {}]

\* the tables of a statement for which a provider is asked
TablesAsked(ast) == {t \in {FqTable(FindAllTables(ast)[k]) : k \in DOMAIN FindAllTables(ast)} : LookedUp(t, SomeBq)}

Providers(ast) ==
  {NoBq} \cup
  {[SomeBq EXCEPT !.rc_raises = R, !.cols_raises = C, !.table_raises = T]
     : R \in SUBSET TablesAsked(ast), C \in SUBSET TablesAsked(ast), T \in SUBSET TablesAsked(ast)}

\* bq.py: the threads, the dataset ids they pass and the service's default
Callers == 1..MaxCallers

DatasetIds == {"d1", "d2"}

DefaultLocation == "US"

\* a thread outside _get_dataset_location; ret is <<>> for None
Idle == [pc |-> "idle", dataset_id |-> "", loc |-> "", ret |-> <<>>, raised |-> ""]

\* the service object after __init__ (lines 14-18), no call under way
ServiceInit ==
  /\ location_cache = [d \in {} |-> ""]
  /\ caller = [p \in Callers |-> Idle]

Init ==
  /\ datasets = [d \in DatasetIds |-> ""]
  /\ ServiceInit
  /\ \/ /\ sql \in {[ok |-> TRUE, ast |-> a] : a \in CteFamily}
        /\ qualify_mod = FALSE
        /\ bq = NoBq
     \/ /\ sql \in {[ok |-> TRUE, ast |-> a] : a \in MainFamily}
        /\ qualify_mod \in BOOLEAN
        /\ bq \in Providers(sql.ast)
     \/ /\ sql = [ok |-> FALSE, ast |-> NoAst]
        /\ qualify_mod \in BOOLEAN
        /\ bq \in {NoBq, SomeBq}
  /\ pc = "parse"
  /\ parsed = NoAst
  /\ qualified = NoAst
  /\ qstatus = "skipped"
  /\ cte_map = EmptyMap
  /\ base_deps = EmptyMap
  /\ cte_refs = EmptyMap
  /\ changed = FALSE
  /\ todo = {}
  /\ sources = <<>>
  /\ alias_map = EmptyMap
  /\ joins = <<>>
  /\ result = NoResult
  /\ error = ""

\* lines 269-272
Parse ==
  /\ pc = "parse"
  /\ IF sql.ok
       THEN /\ parsed' = sql.ast
            /\ pc' = "qualify"
            /\ error' = error
       ELSE /\ parsed' = parsed
            /\ pc' = "raised"
            /\ error' = "SQL parse error"
  /\ UNCHANGED <<service, input, qualified, qstatus, expand, analysis, result>>

\* lines 274-284: the outcome of the pass, [status, ast]
QualifyPass(ast, available) ==
  IF ~available THEN [status |-> "skipped", ast |-> ast]
  ELSE IF QualifyThrows(ast) THEN [status |-> "threw", ast |-> ast]
  ELSE [status |-> "done", ast |-> QualifiedAst(ast)]

Qualify ==
  /\ pc = "qualify"
  /\ qualified' = QualifyPass(parsed, qualify_mod).ast
  /\ qstatus' = QualifyPass(parsed, qualify_mod).status
  /\ pc' = "cte"
  /\ UNCHANGED <<service, input, parsed, expand, analysis, result, error>>

\* lines 287-289 and 71-82
CteAnalysis ==
  /\ pc = "cte"
  /\ cte_map' = CollectCteMap(qualified)
  /\ IF DOMAIN cte_map' # {}
       THEN /\ base_deps' = InitialBaseDeps(cte_map')
            /\ cte_refs' = InitialCteRefs(cte_map')
            /\ changed' = TRUE
            /\ pc' = "while"
       ELSE /\ UNCHANGED <<base_deps, cte_refs, changed>>
            /\ pc' = "analyze"
  /\ UNCHANGED <<service, input, front, todo, analysis, result, error>>

\* lines 83-85: the test of `while changed` and the start of a pass
WhileTest ==
  /\ pc = "while"
  /\ IF changed
       THEN /\ changed' = FALSE
            /\ todo' = DOMAIN cte_map
            /\ pc' = "for"
       ELSE /\ UNCHANGED <<changed, todo>>
            /\ pc' = "analyze"
  /\ UNCHANGED <<service, input, front, cte_map, base_deps, cte_refs, analysis, result, error>>

\* lines 85-91: one iteration of `for name in cte_names`; a set of strings is
\* iterated in an order the program does not fix
ForStep ==
  /\ pc = "for"
  /\ \E name \in todo :
       /\ base_deps' = UpdateFromRefs(base_deps, name, cte_refs[name])
       /\ changed' = (changed \/ Grew(base_deps, base_deps', name))
       /\ todo' = todo \ {name}
       /\ pc' = IF todo' = {} THEN "while" ELSE "for"
  /\ UNCHANGED <<service, input, front, cte_map, cte_refs, analysis, result, error>>

\* variant of Sources: only the main select is scanned, not the CTE bodies
SourcesOfMainSelect(ast, cte_names) ==
  Sorted(CollectTablesExcluding(TablesOfSelect(ast.select), cte_names).base)

\* line 293
Sources(ast, cte_names) == Sorted(CollectTablesExcluding(FindAllTables(ast), cte_names).base)

\* lines 292-316: sources, alias map and joins; _join_details may raise
Analyze ==
  /\ pc = "analyze"
  /\ sources' = Sources(qualified, DOMAIN cte_map)
  /\ alias_map' = AliasSingleBaseCtes(BuildAliasMap(qualified, sources'), base_deps, DOMAIN base_deps)
  /\ IF JoinDetailsRaises(qualified)
       THEN /\ joins' = joins
            /\ error' = "AttributeError"
            /\ pc' = "raised"
       ELSE /\ joins' = RewriteJoins(JoinDetails(qualified), base_deps)
            /\ error' = error
            /\ pc' = "assemble"
  /\ UNCHANGED <<service, input, front, expand, result>>

\* lines 318-608: filters, group by, outputs, the graph and the result
ComputeResult(ast, srcs, amap, deps, js, provider, now_kpi, now_gov) ==
  LET filters == CollectFilters(ast)
      group_by == CollectGroupBy(ast)
      outputs == CollectOutputs(ast)
      lineage == CollectColumnLineage(ast)
      nodes == FinalNodes(srcs, lineage.nodes, amap, deps, js, group_by, outputs, provider, now_kpi)
      edges == FinalEdges(srcs, lineage, amap, deps, js, group_by, outputs, provider)
  IN BuildResult(srcs, js, filters, group_by, outputs, nodes, edges, Governance(now_gov),
                 Hierarchy(nodes, srcs, js, filters, outputs, provider))

Assemble ==
  /\ pc = "assemble"
  /\ \E now_kpi \in Times, now_gov \in Times :
       /\ now_kpi <= now_gov
       /\ result' = ComputeResult(qualified, sources, alias_map, base_deps, joins, bq,
                                  now_kpi, now_gov)
  /\ pc' = "done"
  /\ UNCHANGED <<service, input, front, expand, analysis, error>>

\* lines 85-91 as a function: one pass of the for loop over the names
RECURSIVE PassOverNames(_, _, _)
PassOverNames(deps, refs, names) ==
  IF names = {} THEN deps
  ELSE LET n == CHOOSE x \in names : TRUE
       IN PassOverNames(UpdateFromRefs(deps, n, refs[n]), refs, names \ {n})

\* lines 82-92 as a function: passes until none makes a set grow
RECURSIVE ExpandFrom(_, _)
ExpandFrom(deps, refs) ==
  LET after == PassOverNames(deps, refs, DOMAIN deps)
  IN IF \E n \in DOMAIN deps : Grew(deps, after, n) THEN ExpandFrom(after, refs) ELSE after

\* _expand_cte_base_dependencies as a function of cte_map
ExpandCteBaseDependencies(cte_map_) ==
  ExpandFrom(InitialBaseDeps(cte_map_), InitialCteRefs(cte_map_))

\* line 289
CteBaseDeps(ast) ==
  IF DOMAIN CollectCteMap(ast) = {} THEN EmptyMap
  ELSE ExpandCteBaseDependencies(CollectCteMap(ast))

\* compute_lineage as a function of its input, for a call that returns: the
\* parsed AST, whether the qualify module is there, the provider, the clock
LineageOf(ast, available, provider, now_kpi, now_gov) ==
  LET q == QualifyPass(ast, available).ast
      deps == CteBaseDeps(q)
      srcs == Sources(q, DOMAIN CollectCteMap(q))
      amap == AliasSingleBaseCtes(BuildAliasMap(q, srcs), deps, DOMAIN deps)
      js == RewriteJoins(JoinDetails(q), deps)
  IN ComputeResult(q, srcs, amap, deps, js, provider, now_kpi, now_gov)

Next == Parse \/ Qualify \/ CteAnalysis \/ WhileTest \/ ForStep \/ Analyze \/ Assemble

Spec == Init /\ [][Next]_vars

\* the interpreter does not stop inside the loop of lines 83-91
FairSpec == Spec /\ WF_vars(WhileTest) /\ WF_vars(ForStep)

\* ------------------------------------------------------ bq.py, lines 13-31
\* dict.__setitem__: the other entries stay
CachePutFresh(cache, dataset_id, loc) == [d \in {dataset_id} |-> loc]

CachePut(cache, dataset_id, loc) ==
  [d \in DOMAIN cache \cup {dataset_id} |-> IF d = dataset_id THEN loc ELSE cache[d]]

\* line 27: getattr(ds, "location", None) or self.location
LocationOf(dataset_id) ==
  IF datasets[dataset_id] = "" THEN DefaultLocation ELSE datasets[dataset_id]

\* no call of compute_lineage is under way
NoLineageCall ==
  /\ sql = [ok |-> FALSE, ast |-> NoAst]
  /\ qualify_mod = FALSE
  /\ bq = NoBq
  /\ pc = "parse"
  /\ parsed = NoAst
  /\ qualified = NoAst
  /\ qstatus = "skipped"
  /\ cte_map = EmptyMap
  /\ base_deps = EmptyMap
  /\ cte_refs = EmptyMap
  /\ changed = FALSE
  /\ todo = {}
  /\ sources = <<>>
  /\ alias_map = EmptyMap
  /\ joins = <<>>
  /\ result = NoResult
  /\ error = ""

lineage_call == <<input, pc, front, expand, analysis, result, error>>

\* one service object shared by the request threads; each dataset either
\* reports a location or leaves it unset
CacheInit ==
  /\ datasets \in [DatasetIds -> {"", "EU"}]
  /\ ServiceInit
  /\ NoLineageCall

\* lines 20-22: the call and its first test
Enter ==
  \E p \in Callers, d \in DatasetIds \cup {""} :
    /\ caller[p].pc = "idle"
    /\ caller' = [caller EXCEPT ![p] =
         IF d = "" THEN [Idle EXCEPT !.pc = "returned"]
         ELSE [Idle EXCEPT !.pc = "test", !.dataset_id = d]]
    /\ UNCHANGED <<lineage_call, datasets, location_cache>>

\* line 23
TestCache ==
  \E p \in Callers :
    /\ caller[p].pc = "test"
    /\ caller' = [caller EXCEPT ![p].pc =
         IF caller[p].dataset_id \in DOMAIN location_cache THEN "read" ELSE "lookup"]
    /\ UNCHANGED <<lineage_call, datasets, location_cache>>

\* line 24
ReadCache ==
  \E p \in Callers :
    /\ caller[p].pc = "read"
    /\ caller' = [caller EXCEPT ![p] =
         IF caller[p].dataset_id \in DOMAIN location_cache
           THEN [@ EXCEPT !.pc = "returned", !.ret = <<location_cache[caller[p].dataset_id]>>]
           ELSE [@ EXCEPT !.pc = "raised", !.raised = "KeyError"]]
    /\ UNCHANGED <<lineage_call, datasets, location_cache>>

\* lines 25-27 and 30-31: the request either raises or answers
Lookup ==
  \E p \in Callers, fails \in BOOLEAN :
    /\ caller[p].pc = "lookup"
    /\ caller' = [caller EXCEPT ![p] =
         IF fails THEN [@ EXCEPT !.pc = "returned", !.ret = <<>>]
         ELSE [@ EXCEPT !.pc = "write", !.loc = LocationOf(caller[p].dataset_id)]]
    /\ UNCHANGED <<lineage_call, datasets, location_cache>>

\* line 28
WriteCache ==
  \E p \in Callers :
    /\ caller[p].pc = "write"
    /\ location_cache' = CachePut(location_cache, caller[p].dataset_id, caller[p].loc)
    /\ caller' = [caller EXCEPT ![p].pc = "return"]
    /\ UNCHANGED <<lineage_call, datasets>>

\* line 29
ReturnLoc ==
  \E p \in Callers :
    /\ caller[p].pc = "return"
    /\ caller' = [caller EXCEPT ![p] = [@ EXCEPT !.pc = "returned", !.ret = <<caller[p].loc>>]]
    /\ UNCHANGED <<lineage_call, datasets, location_cache>>

\* the thread takes its result and is free for another call
Leave ==
  \E p \in Callers :
    /\ caller[p].pc \in {"returned", "raised"}
    /\ caller' = [caller EXCEPT ![p] = Idle]
    /\ UNCHANGED <<lineage_call, datasets, location_cache>>

CacheNext == Enter \/ TestCache \/ ReadCache \/ Lookup \/ WriteCache \/ ReturnLoc \/ Leave

CacheSpec == CacheInit /\ [][CacheNext]_vars

\* ------------------------------------------------------------------ claims
\* the call has returned / the fixpoint loop has been left
Returned == pc = "done"

LoopLeft == DOMAIN cte_map # {} /\ pc \in {"analyze", "assemble", "done", "raised"}

InLoop == pc \in {"while", "for"}

\* the CTE names of the statement and the body of each, read off the input
CtesOf(ast) == {ast.with[k].alias : k \in DOMAIN ast.with}

BodyOfCte(ast, n) == (CHOOSE k \in DOMAIN ast.with : ast.with[k].alias = n)

\* the names a Select reads: those that name a CTE, and the physical tables
CtesReadBy(sel, ast) ==
  {t.name[1] : t \in {u \in SeqToSet(TablesOfSelect(sel)) : Len(u.name) = 1 /\ u.name[1] \in CtesOf(ast)}}

TablesReadBy(sel, ast) ==
  {t.name : t \in {u \in SeqToSet(TablesOfSelect(sel)) : ~(Len(u.name) = 1 /\ u.name[1] \in CtesOf(ast))}}

\* the CTEs reachable from a set of CTEs through CTE-to-CTE references
RECURSIVE CtesReachable(_, _)
CtesReachable(from, ast) ==
  LET more == from \cup UNION {CtesReadBy(ast.with[BodyOfCte(ast, n)].this, ast) : n \in from}
  IN IF more = from THEN from ELSE CtesReachable(more, ast)

\* the physical tables the statement scans: those of the main select and of
\* the CTEs the main select reads, directly or through other CTEs
ScannedTables(ast) ==
  TablesReadBy(ast.select, ast)
  \cup UNION {TablesReadBy(ast.with[BodyOfCte(ast, n)].this, ast)
              : n \in CtesReachable(CtesReadBy(ast.select, ast), ast)}

\* C1: the sources of a result hold no CTE name and are exactly the physical
\* tables read by the main query or by a CTE the main query reads, directly
\* or through other CTEs.
C1_SourcesAreScannedTables ==
  Returned =>
    /\ \A k \in DOMAIN result.sources :
         ~(Len(result.sources[k]) = 1 /\ result.sources[k][1] \in CtesOf(sql.ast))
    /\ SeqToSet(result.sources) = ScannedTables(sql.ast)

AllDirectBases == UNION {InitialBaseDeps(cte_map)[n] : n \in DOMAIN cte_map}

\* C3: the fixpoint loop is left for every reference graph, cyclic ones
\* included; while it runs every base_deps[n] only grows and stays within the
\* union of the direct base tables.
C3_LoopTerminatesMonotone ==
  /\ [](InLoop => \A n \in DOMAIN base_deps : base_deps[n] \subseteq AllDirectBases)
  /\ [][InLoop /\ InLoop' =>
          \A n \in DOMAIN base_deps : base_deps[n] \subseteq base_deps'[n]]_vars
  /\ [][pc = "while" /\ pc' = "analyze" => ~changed]_vars
  /\ (InLoop ~> ~InLoop)

\* a mutual cycle and a self-reference, after the loop
C3_Witness ==
  /\ LoopLeft
  /\ \E n \in DOMAIN cte_refs : n \in cte_refs[n]
  /\ \E n, m \in DOMAIN cte_refs : n # m /\ m \in cte_refs[n] /\ n \in cte_refs[m]

\* C4: the call raises exactly when the parser fails, with the parser's
\* message and before any later stage; once parsing succeeded it returns.
C4_RaisesOnlyOnParseFailure ==
  /\ pc = "raised" => (~sql.ok /\ error = "SQL parse error")
  /\ ~sql.ok => (pc \in {"parse", "raised"} /\ qualified = NoAst /\ cte_map = EmptyMap)

\* C5: when the qualify pass throws or is unavailable the later stages read
\* the AST the parser produced, and the call returns a result.
C5_QualifyFailureFallsBack ==
  (pc \notin {"parse", "qualify"} /\ sql.ok) =>
    /\ qstatus \in {"threw", "skipped"} => qualified = parsed
    /\ qstatus = "threw" => pc # "raised"

\* the keys of the output contract
ContractKeys == {"sources", "joins", "filters", "groupBy", "outputs", "graph", "hierarchy", "governance"}

\* C6: every returned result has all keys of the output contract, the arrays
\* being present when empty and outputs being an object or null.
C6_ContractKeysPresent ==
  Returned =>
    /\ ContractKeys \subseteq DOMAIN result
    /\ {"nodes", "edges"} \subseteq DOMAIN result.graph
    /\ {"physical", "logical", "semantic"} \subseteq DOMAIN result.hierarchy
    /\ {"createdBy", "lastModified", "lineageVersion"} \subseteq DOMAIN result.governance
    /\ Len(result.outputs) <= 1
    /\ \A k \in DOMAIN result.outputs : DOMAIN result.outputs[k] \subseteq OutputSlots

\* a result for a query without FROM, joins, filters, group by or outputs
C6_Witness ==
  /\ Returned
  /\ result.sources = <<>> /\ result.joins = <<>> /\ result.filters = <<>>
  /\ result.groupBy = <<>> /\ result.outputs = <<>>

\* a statement without CTEs whose only join has ON with a single equality
SingleEqualityJoin(ast) ==
  /\ ast.with = <<>>
  /\ Len(ast.select.from) = 1
  /\ Len(ast.select.joins) = 1
  /\ Len(ast.select.joins[1].on) = 1
  /\ Len(ast.select.joins[1].on[1]) = 1

C8_JoinRecordsCarryIds ==
  Returned =>
    /\ \A k \in DOMAIN result.joins : "id" \in DOMAIN result.joins[k]
    /\ \A k \in DOMAIN result.joins :
         "id" \in DOMAIN result.joins[k] =>
           result.hierarchy.logical.joins[k] = result.joins[k].id

\* C9: no two nodes of a result share an id.
C9_NodeIdsDistinct ==
  Returned =>
    \A i, k \in DOMAIN result.graph.nodes :
      result.graph.nodes[i].id = result.graph.nodes[k].id => i = k

\* an output alias equal to the id of a source table
C9_Witness ==
  /\ Returned
  /\ <<"orders">> \in SeqToSet(result.sources)
  /\ \E k \in DOMAIN qualified.select.expressions :
       qualified.select.expressions[k].alias = "orders"
          /\ qualified.select.expressions[k].cols # <<>>

\* the node ids the three groups of the hierarchy list (the filter texts of
\* hierarchy.logical are not ids)
PhysicalIds(h) == h.physical.databases \cup h.physical.schemas \cup h.physical.tables \cup h.physical.columns

LogicalIds(h) == SeqToSet(h.logical.joins) \cup SeqToSet(h.logical.aggregations)

SemanticIds(h) == SeqToSet(h.semantic.kpis) \cup SeqToSet(h.semantic.dashboards)

\* C10: the hierarchy partitions the node ids by kind: table, column, database
\* and schema nodes are physical, join and aggregation nodes logical, kpi and
\* output nodes semantic, and every id of the hierarchy is the id of a node.
C10_HierarchyPartitionsNodes ==
  Returned =>
    LET h == result.hierarchy
        nodes == result.graph.nodes
    IN /\ \A k \in DOMAIN nodes :
            /\ nodes[k].type \in {"table", "column", "database", "schema"} =>
                 (nodes[k].id \in PhysicalIds(h) /\ nodes[k].id \notin LogicalIds(h) \cup SemanticIds(h))
            /\ nodes[k].type \in {"join", "aggregation"} =>
                 (nodes[k].id \in LogicalIds(h) /\ nodes[k].id \notin PhysicalIds(h) \cup SemanticIds(h))
            /\ nodes[k].type \in {"kpi", "output"} =>
                 (nodes[k].id \in SemanticIds(h) /\ nodes[k].id \notin PhysicalIds(h) \cup LogicalIds(h))
       /\ PhysicalIds(h) \cup LogicalIds(h) \cup SemanticIds(h) \subseteq NodeIds(nodes)

\* C11: every result has exactly one node of type kpi, and each GROUP BY
\* expression g has a node with id g and a dimension edge from g to that kpi node.
C11_OneKpiWithDimensions ==
  Returned =>
    LET nodes == result.graph.nodes
        kpis == {k \in DOMAIN nodes : nodes[k].type = "kpi"}
    IN /\ Cardinality(kpis) = 1
       /\ \A g \in SeqToSet(result.groupBy) :
            /\ g \in NodeIds(nodes)
            /\ \E k \in kpis :
                 Edge(g, nodes[k].id, "dimension") \in SeqToSet(result.graph.edges)

\* a result for a query with GROUP BY whose expression is no projected column
C11_Witness ==
  /\ Returned
  /\ result.groupBy # <<>>
  /\ \E g \in SeqToSet(result.groupBy) :
       \A k \in DOMAIN result.graph.edges :
         result.graph.edges[k].type = "projection" => result.graph.edges[k].source # g

\* the text of the expression E of a projection `E AS a`, without the alias
ExprSql(p) == [fn |-> p.fn, cols |-> p.cols, lit |-> p.lit, alias |-> ""]

\* the outputs of a result as a dict, empty for null
OutputsDict == IF result.outputs = <<>> THEN [x \in {} |-> <<>>] ELSE result.outputs[1]

\* C12: for every projection `E AS a` of the top-level SELECT with a one of
\* x, y, label, value, outputs[lower(a)] is the text of E alone, without the
\* alias; a projection with another alias adds no key.
C12_OutputsHoldExpressionText ==
  Returned =>
    LET projs == qualified.select.expressions
    IN \A k \in DOMAIN projs :
         projs[k].alias # "" =>
           IF Lower(projs[k].alias) \in OutputSlots
             THEN /\ Lower(projs[k].alias) \in DOMAIN OutputsDict
                  /\ (\A m \in DOMAIN projs :
                          m > k => Lower(AliasOrName(projs[m])) # Lower(projs[k].alias))
                       => OutputsDict[Lower(projs[k].alias)] = ExprSql(projs[k])
             ELSE Lower(projs[k].alias) \notin DOMAIN OutputsDict

\* the projection that fills an output slot: the last one of the top-level
\* SELECT whose alias or name is the slot
SlotFilled(slot) ==
  \E k \in DOMAIN qualified.select.expressions :
    Lower(AliasOrName(qualified.select.expressions[k])) = slot

SlotProjection(slot) ==
  LET projs == qualified.select.expressions
      k == CHOOSE i \in DOMAIN projs :
             /\ Lower(AliasOrName(projs[i])) = slot
             /\ \A m \in DOMAIN projs : Lower(AliasOrName(projs[m])) = slot => m <= i
  IN projs[k]

\* the slots whose projection is an aliased call of an aggregate function
AggregateSlots ==
  SelectSeq(<<"value", "y">>,
            LAMBDA slot : /\ SlotFilled(slot)
                          /\ SlotProjection(slot).alias # ""
                          /\ SlotProjection(slot).fn \in AggFunctions)

\* C13: the graph has an aggregation node for a slot value or y, labelled
\* FUNC(args), exactly when the projection of the slot is an aliased call
\* FUNC(args) of AVG, SUM, COUNT, MIN or MAX; other slots give no node.
C13_AggregationNodePerAggregateSlot ==
  Returned =>
    LET aggs == SelectSeq(result.graph.nodes, LAMBDA n : n.type = "aggregation")
    IN /\ Len(aggs) = Len(AggregateSlots)
       /\ \A k \in DOMAIN aggs :
            aggs[k].label = ExprSql(SlotProjection(AggregateSlots[k]))

\* C14: a second call with the same SQL and the same provider answers, made
\* at any other time, returns the same sources, joins, nodes (every field of
\* every node) and edges, in the same order.
C14_RepeatedCallsIdentical ==
  Returned =>
    \A now_kpi \in Times, now_gov \in Times :
      now_kpi <= now_gov =>
        LET again == LineageOf(sql.ast, qualify_mod, bq, now_kpi, now_gov)
        IN /\ again.sources = result.sources
           /\ again.joins = result.joins
           /\ again.graph.edges = result.graph.edges
           /\ again.graph.nodes = result.graph.nodes

\* the function and the steps of the call agree on everything but the clock
PipelineAgrees ==
  /\ LoopLeft => base_deps = CteBaseDeps(qualified)
  /\ Returned =>
       \E now_kpi \in Times, now_gov \in Times :
         result = LineageOf(sql.ast, qualify_mod, bq, now_kpi, now_gov)

\* the sources and the joins computed from the AST the later stages are given
SourcesOf(ast) == Sources(ast, DOMAIN CollectCteMap(ast))

JoinsOf(ast) == RewriteJoins(JoinDetails(ast), CteBaseDeps(ast))

\* the fields of the join records the claim names
JoinCore(js) ==
  [k \in DOMAIN js |->
     [left_table |-> js[k].left_table, right_table |-> js[k].right_table,
      type |-> js[k].type, on |-> js[k].on, pairs |-> js[k].pairs]]

\* C15: sources and joins (left_table, right_table, type, ON text and pairs)
\* are the same whether the qualify pass is skipped, applied once or twice.
C15_QualifyLeavesSourcesAndJoins ==
  Returned =>
    LET skipped == parsed
        once == QualifyPass(parsed, TRUE).ast
        twice == QualifyPass(once, TRUE).ast
    IN /\ SourcesOf(once) = SourcesOf(skipped)
       /\ SourcesOf(twice) = SourcesOf(once)
       /\ JoinCore(JoinsOf(twice)) = JoinCore(JoinsOf(once))
       /\ JoinCore(JoinsOf(once)) = JoinCore(JoinsOf(skipped))

\* the same provider with every lookup succeeding
AllLookupsSucceed(provider) ==
  [provider EXCEPT !.rc_raises = {}, !.cols_raises = {}, !.table_raises = {}]

\* the ids of the nodes, in the order of graph.nodes
IdsInOrder(nodes) == [k \in DOMAIN nodes |-> nodes[k].id]

\* the column has no schema left: it belongs to tables for which both the
\* column-schema lookup and the table lookup raise
ColumnWithoutSchema(n) ==
  LET bases == ResolveBaseTablesForColumn(n.id, alias_map, base_deps)
  IN /\ n.type = "column"
     /\ bases # <<>>
     /\ \A k \in DOMAIN bases : bases[k] \in bq.cols_raises \cap bq.table_raises

\* C16: lookups of the metadata provider that raise never make the call
\* fail: a table whose row-count lookup raises has rowCount null, a column
\* whose schema no lookup delivers has no dataType and no description, and
\* sources, joins, filters, groupBy, outputs, the node ids and the edges are
\* those of the call in which the same provider's lookups succeed.
C16_MetadataFailuresDegrade ==
  /\ pc = "raised" => (~sql.ok \/ JoinDetailsRaises(qualified))
  /\ (Returned /\ bq # AllLookupsSucceed(bq)) =>
       LET ok == LineageOf(sql.ast, qualify_mod, AllLookupsSucceed(bq), 1, 1)
           nodes == result.graph.nodes
       IN /\ result.sources = ok.sources
          /\ result.joins = ok.joins
          /\ result.filters = ok.filters
          /\ result.groupBy = ok.groupBy
          /\ result.outputs = ok.outputs
          /\ IdsInOrder(nodes) = IdsInOrder(ok.graph.nodes)
          /\ result.graph.edges = ok.graph.edges
          /\ \A k \in DOMAIN nodes :
               /\ (nodes[k].type = "table" /\ nodes[k].id \in bq.rc_raises)
                    => nodes[k].rowCount = <<>>
               /\ ColumnWithoutSchema(nodes[k])
                    => {"dataType", "description"} \cap DOMAIN nodes[k] = {}

\* all three lookups raise for a table one of whose columns the query reads;
\* with succeeding lookups the table has a row count and the column a type
C16_Witness ==
  /\ Returned
  /\ LET ok == LineageOf(sql.ast, qualify_mod, AllLookupsSucceed(bq), 1, 1).graph.nodes
         nodes == result.graph.nodes
     IN /\ \E k \in DOMAIN nodes :
             /\ nodes[k].type = "table" /\ nodes[k].id \in bq.rc_raises
             /\ ok[k].rowCount # <<>>
        /\ \E k \in DOMAIN nodes :
             /\ ColumnWithoutSchema(nodes[k])
             /\ "dataType" \in DOMAIN ok[k]

\* every cached entry is the location the lookup gives for its dataset
CacheHoldsLookedUp ==
  \A d \in DOMAIN location_cache :
    d \in DatasetIds /\ location_cache[d] = LocationOf(d)

\* a finished call has None or the cached value of its key, and none raised
CallReturnsCached ==
  \A p \in Callers :
    /\ caller[p].pc # "raised"
    /\ caller[p].pc = "returned" =>
         \/ caller[p].ret = <<>>
         \/ /\ caller[p].dataset_id \in DOMAIN location_cache
            /\ caller[p].ret = <<location_cache[caller[p].dataset_id]>>

\* a step keeps every entry as it is
EntriesKept ==
  \A d \in DOMAIN location_cache :
    d \in DOMAIN location_cache' /\ location_cache'[d] = location_cache[d]

\* a lookup that raises ends the call with None and leaves the cache alone
FailedLookupWritesNothing ==
  \A p \in Callers :
    (caller[p].pc = "lookup" /\ caller'[p].pc = "returned") =>
      caller'[p].ret = <<>> /\ location_cache' = location_cache

\* C17: under any interleaving of calls of _get_dataset_location on one
\* service object, the cache (a dict, one value per key) holds for each
\* dataset id exactly the location the lookup returned for it, an entry once
\* written is never removed or replaced by another value, a failed lookup
\* returns None and writes nothing, and every call returns None or the value
\* the cache holds for its key.
C17_LocationCacheSafe ==
  /\ [](CacheHoldsLookedUp /\ CallReturnsCached)
  /\ [][EntriesKept /\ FailedLookupWritesNothing]_vars

\* two threads missed the cache for the same dataset and both have written
C17_Witness ==
  /\ caller[1].pc = "return"
  /\ caller[2].pc = "return"
  /\ caller[1].dataset_id = caller[2].dataset_id
  /\ DOMAIN location_cache = DatasetIds

\* FROM t0 JOIN t1 ... JOIN t2 ..., no WITH clause
JoinChain(ast) ==
  /\ ast.with = <<>>
  /\ Len(ast.select.from) = 1
  /\ Len(ast.select.joins) >= 2

\* C18: in a chain FROM t0 JOIN t1 ... JOIN t2 ... the left_table of each join
\* record is the table seen just before that join: t0 for the first join,
\* t1 for the second.
C18_LeftTableIsPreviousTable ==
  (Returned /\ JoinChain(qualified)) =>
    /\ Len(result.joins) = Len(qualified.select.joins)
    /\ \A k \in DOMAIN result.joins :
         result.joins[k].left_table =
           FqTable(IF k = 1 THEN qualified.select.from[1]
                            ELSE qualified.select.joins[k - 1].this)

\* the operand is a bare name and a CTE of the statement has that name
NamesCte(tbl, ast) ==
  Len(tbl) = 1 /\ \E k \in DOMAIN ast.with : ast.with[k].alias = tbl[1]

\* the operand the rewrite is to leave behind
OperandAfter(tbl, ast, deps) ==
  IF NamesCte(tbl, ast) /\ Cardinality(deps[tbl[1]]) = 1
    THEN CHOOSE b \in deps[tbl[1]] : TRUE
    ELSE tbl

\* C19: after compute_lineage a join operand that names a CTE with exactly
\* one base dependency is that base table, an operand that names a CTE with
\* zero or several base dependencies is still the CTE name, an operand that
\* names no CTE is unchanged, and type, on, pairs and right_alias of the
\* record are as _join_details made them.
C19_OperandsRewrittenForSingleBaseCtes ==
  Returned =>
    /\ Len(result.joins) = Len(JoinDetails(qualified))
    /\ \A k \in DOMAIN result.joins :
         result.joins[k] =
           [JoinDetails(qualified)[k] EXCEPT
              !.left_table = OperandAfter(@, qualified, base_deps),
              !.right_table = OperandAfter(@, qualified, base_deps)]

\* C20: for every join record of the result the graph has one join node, a
\* join_input edge to that node from the left and from the right operand of
\* each of the record's equality pairs, and a join_output edge from the join
\* node to the record's right table.
C20_JoinNodeWithInputsAndOutput ==
  Returned =>
    LET nodes == result.graph.nodes
        edges == SeqToSet(result.graph.edges)
    IN \A k \in DOMAIN result.joins :
         LET jid == JoinNodeId(result.joins[k], k)
         IN /\ Cardinality({n \in DOMAIN nodes : nodes[n].id = jid /\ nodes[n].type = "join"}) = 1
            /\ \A m \in DOMAIN result.joins[k].pairs :
                 /\ Edge(result.joins[k].pairs[m].left, jid, "join_input") \in edges
                 /\ Edge(result.joins[k].pairs[m].right, jid, "join_input") \in edges
            /\ Edge(jid, result.joins[k].right_table, "join_output") \in edges

\* the pairs of the `=` comparisons that are the ON expression or one of its
\* AND operands
TopLevelPairs(j) ==
  IF j.on = <<>> THEN <<>>
  ELSE LET top == SelectSeq(j.on[1], LAMBDA e : e.under = "")
       IN [k \in DOMAIN top |-> [left |-> top[k].left, right |-> top[k].right]]

\* C21: for every equality pair (l, r) of every join record the graph has a
\* column node l, a column node r and a `join` edge from l to r, and the
\* pairs of a record are those of the top-level `=` comparisons of its ON
\* expression (or of its USING columns): an equality nested inside a
\* sub-expression of ON gives no pair.
C21_PairsAreTopLevelEqualities ==
  Returned =>
    LET nodes == result.graph.nodes
        js == FindAllJoins(qualified)
    IN /\ Len(result.joins) = Len(js)
       /\ \A k \in DOMAIN result.joins :
            /\ \A m \in DOMAIN result.joins[k].pairs :
                 LET pr == result.joins[k].pairs[m]
                 IN /\ \E n \in DOMAIN nodes : nodes[n].id = pr.left /\ nodes[n].type = "column"
                    /\ \E n \in DOMAIN nodes : nodes[n].id = pr.right /\ nodes[n].type = "column"
                    /\ Edge(pr.left, pr.right, "join") \in SeqToSet(result.graph.edges)
            /\ js[k].j.using = <<>> => result.joins[k].pairs = TopLevelPairs(js[k].j)

\* the base tables behind a table id: the base dependencies of the CTE it
\* names, else the table itself
BasesOfTable(tbl, ast, deps) ==
  IF NamesCte(tbl, ast) THEN deps[tbl[1]] ELSE {tbl}

\* the base tables a column id resolves to: none without a qualifier; for
\* q.col the CTE q, else what the alias map holds for q; for longer ids the
\* segments before the column
BasesOfColumn(col_id, ast, amap, deps) ==
  LET parts == CleanIdentifier(col_id)
  IN IF Len(parts) >= 4 THEN {SubSeq(parts, 1, 3)}
     ELSE IF Len(parts) = 3 THEN {SubSeq(parts, 1, 2)}
     ELSE IF Len(parts) = 2
       THEN (IF NamesCte(<<parts[1]>>, ast) THEN deps[parts[1]]
             ELSE IF parts[1] \in DOMAIN amap THEN BasesOfTable(amap[parts[1]], ast, deps)
             ELSE {})
     ELSE {}

OutputAliases(ast) ==
  {<<AliasOrName(ast.select.expressions[k])>> : k \in DOMAIN ast.select.expressions}

\* C22: for every projection edge from a column c to an output alias a and
\* every base table b that c resolves to, the graph has a derives edge from
\* b to a; and every derives edge into an output alias comes from a base
\* table that some column projected into that alias resolves to.
C22_DerivesFollowProjections ==
  Returned =>
    LET edges == SeqToSet(result.graph.edges)
        projections == {e \in edges : e.type = "projection"}
    IN /\ \A e \in projections :
            \A b \in BasesOfColumn(e.source, qualified, alias_map, base_deps) :
              Edge(b, e.target, "derives") \in edges
       /\ \A e \in edges :
            (e.type = "derives" /\ e.target \in OutputAliases(qualified)) =>
              \E pe \in projections :
                /\ pe.target = e.target
                /\ e.source \in BasesOfColumn(pe.source, qualified, alias_map, base_deps)

\* the tables of the statement that carry the explicit alias q
TablesAliased(q, ast) ==
  {FqTable(FindAllTables(ast)[k]) : k \in {i \in DOMAIN FindAllTables(ast) : FindAllTables(ast)[i].alias = q}}

\* the sources of the contains edges into one column, one entry per edge
ContainsSources(col_id, edges) ==
  LET into == SelectSeq(edges, LAMBDA e : e.type = "contains" /\ e.target = col_id)
  IN [k \in DOMAIN into |-> into[k].source]

\* C23: a column whose qualifier is the name of a CTE, or an alias of a CTE,
\* with two or more base dependencies has a contains edge from every base
\* table of that CTE and from nothing else; a column whose qualifier is a
\* plain table alias has exactly one contains edge, from the aliased table.
C23_ContainsEdgesPerQualifier ==
  Returned =>
    \A n \in DOMAIN result.graph.nodes :
      LET node == result.graph.nodes[n]
          parts == CleanIdentifier(node.id)
          q == parts[1]
          aliased == TablesAliased(q, qualified)
          from == ContainsSources(node.id, result.graph.edges)
      IN (node.type = "column" /\ Len(parts) = 2) =>
           /\ (NamesCte(<<q>>, qualified) /\ Cardinality(base_deps[q]) >= 2) =>
                SeqToSet(from) = base_deps[q]
           /\ \A t \in aliased :
                (~NamesCte(<<q>>, qualified) /\ NamesCte(t, qualified)
                   /\ Cardinality(base_deps[t[1]]) >= 2) =>
                  SeqToSet(from) = base_deps[t[1]]
           /\ \A t \in aliased :
                (~NamesCte(<<q>>, qualified) /\ aliased = {t} /\ ~NamesCte(t, qualified)) =>
                  from = <<t>>

\* the table an id is to be attributed to, by the number of its segments
TableBySegments(col_id, amap) ==
  LET parts == CleanIdentifier(col_id)
  IN CASE Len(parts) = 2 -> IF parts[1] \in DOMAIN amap THEN amap[parts[1]] ELSE <<>>
       [] Len(parts) = 3 -> <<parts[1], parts[2]>>
       [] Len(parts) >= 4 -> <<parts[1], parts[2], parts[3]>>
       [] OTHER -> <<>>

\* the ids of the column nodes of the result
ColumnIds(res) ==
  {res.graph.nodes[n].id : n \in {k \in DOMAIN res.graph.nodes : res.graph.nodes[k].type = "column"}}

\* C24: a column id without qualifier is never attributed to a table:
\* _infer_table_from_column gives none, no contains edge targets it and its
\* projection edges give no derives edge, whatever the alias map and the CTE
\* map hold and also when one table is read; for a 2-part id the table is the
\* alias-map entry of the first segment, for a 3-part id the first two
\* segments, for a 4-part id the first three.
C24_UnqualifiedColumnHasNoTable ==
  Returned =>
    LET edges == SeqToSet(result.graph.edges)
    IN \A c \in ColumnIds(result) :
         /\ InferTableFromColumn(c, alias_map) = TableBySegments(c, alias_map)
         /\ Len(CleanIdentifier(c)) = 1 =>
              /\ ResolveBaseTablesForColumn(c, alias_map, base_deps) = <<>>
              /\ \A e \in edges : ~(e.type = "contains" /\ e.target = c)
              /\ \A pe \in edges :
                   (pe.type = "projection" /\ pe.source = c) =>
                     \A e \in edges :
                       (e.type = "derives" /\ e.target = pe.target) =>
                         \E other \in edges :
                           /\ other.type = "projection"
                           /\ other.target = pe.target
                           /\ Len(CleanIdentifier(other.source)) >= 2

\* SELECT SUM(amount) AS y FROM orders o: one table read, the column left
\* without qualifier
C24_Witness ==
  /\ Returned
  /\ result.sources = << <<"orders">> >>
  /\ Edge(<<"amount">>, <<"y">>, "projection") \in SeqToSet(result.graph.edges)
  /\ <<"amount">> \in ColumnIds(result)

\* the CTEs of the statement with exactly one base dependency
SingleBaseCtes(ast, deps) ==
  {ast.with[k].alias : k \in {i \in DOMAIN ast.with : Cardinality(deps[ast.with[i].alias]) = 1}}

\* C25: in the alias map every explicit table alias maps to the id of the
\* table it aliases; the short name of a source is a key for a source of that
\* short name when no explicit alias uses the key; every CTE with exactly one base dependency
\* maps to that base, also when its name is an explicit alias elsewhere in
\* the query; a CTE with several base dependencies is never mapped to a base
\* table.
C25_AliasMapEntries ==
  Returned =>
    LET tables == FindAllTables(qualified)
        single == SingleBaseCtes(qualified, base_deps)
        aliases == {tables[k].alias : k \in DOMAIN tables} \ {""}
    IN /\ \A k \in DOMAIN tables :
            (tables[k].alias # "" /\ tables[k].alias \notin single) =>
              /\ tables[k].alias \in DOMAIN alias_map
              /\ alias_map[tables[k].alias] = FqTable(tables[k])
       /\ \A k \in DOMAIN sources :
            (Last(sources[k]) \notin aliases /\ Last(sources[k]) \notin single) =>
              /\ Last(sources[k]) \in DOMAIN alias_map
              /\ \E m \in DOMAIN sources :
                   /\ Last(sources[m]) = Last(sources[k])
                   /\ alias_map[Last(sources[k])] = sources[m]
       /\ \A n \in single :
            /\ n \in DOMAIN alias_map
            /\ {alias_map[n]} = base_deps[n]
       /\ \A k \in DOMAIN qualified.with :
            LET n == qualified.with[k].alias
            IN (Cardinality(base_deps[n]) >= 2 /\ n \in DOMAIN alias_map) =>
                 alias_map[n] \notin base_deps[n]

\* C26: every table of `sources` has exactly one node of the same result,
\* and that node has type table, also when an output alias, a column id or a
\* group-by expression is textually equal to the table id; `sources` is
\* sorted and has no duplicates.
C26_OneTableNodePerSource ==
  Returned =>
    /\ result.sources = Sorted(SeqToSet(result.sources))
    /\ \A k \in DOMAIN result.sources :
         LET at == {n \in DOMAIN result.graph.nodes : result.graph.nodes[n].id = result.sources[k]}
         IN /\ Cardinality(at) = 1
            /\ \A n \in at : result.graph.nodes[n].type = "table"

RECURSIVE RefsReachable(_, _)
RefsReachable(from, refs) ==
  LET more == from \cup UNION {refs[n] : n \in from \cap DOMAIN refs}
  IN IF more = from THEN from ELSE RefsReachable(more, refs)

\* the one map every order of visits has to end in: for each CTE the direct
\* bases of the CTEs it reaches
ClosureOf(cmap) ==
  [n \in DOMAIN cmap |->
     UNION {InitialBaseDeps(cmap)[r]
            : r \in RefsReachable({n}, InitialCteRefs(cmap)) \cap DOMAIN cmap}]

\* C28: the map _expand_cte_base_dependencies returns does not depend on the
\* order in which the CTE names are visited inside a pass: for every
\* reference graph, cyclic or not, every order of visits ends in the same
\* base_deps.
C28_VisitOrderDoesNotMatter ==
  LoopLeft =>
    /\ base_deps = ClosureOf(cte_map)
    /\ base_deps = ExpandCteBaseDependencies(cte_map)

\* a and b read each other, c reads a, only b reads a table
C28_Witness ==
  /\ LoopLeft
  /\ {"a", "b", "c"} \subseteq DOMAIN cte_refs
  /\ cte_refs["a"] = {"b"} /\ cte_refs["b"] = {"a"} /\ cte_refs["c"] = {"a"}
  /\ InitialBaseDeps(cte_map)["b"] = {<<"t1">>}
  /\ InitialBaseDeps(cte_map)["c"] = {}
  /\ base_deps["c"] = {<<"t1">>}

\* C29: in every result every edge of graph.edges has a source and a target
\* that are ids of nodes of graph.nodes, the join_table edges of CTE operands,
\* the contains and derives edges of tables inferred from 3-part and 4-part
\* column ids, the join_input edges and the measure edges included.
C29_EdgesJoinNodes ==
  Returned =>
    \A k \in DOMAIN result.graph.edges :
      /\ result.graph.edges[k].source \in NodeIds(result.graph.nodes)
      /\ result.graph.edges[k].target \in NodeIds(result.graph.nodes)

\* C30: in every result every base table in the base dependencies of any CTE
\* of the query is an element of `sources`, and so is every join operand that
\* was rewritten from a single-base CTE to its base table.
C30_CteBasesAreSources ==
  Returned =>
    /\ \A n \in DOMAIN base_deps : base_deps[n] \subseteq SeqToSet(result.sources)
    /\ \A k \in DOMAIN result.joins :
         LET before == JoinDetails(qualified)[k]
         IN /\ result.joins[k].left_table # before.left_table =>
                 result.joins[k].left_table \in SeqToSet(result.sources)
            /\ result.joins[k].right_table # before.right_table =>
                 result.joins[k].right_table \in SeqToSet(result.sources)

\* FROM a JOIN ... where the CTE a reads t1 only: the left operand is t1
C30_Witness ==
  /\ Returned
  /\ "a" \in DOMAIN base_deps
  /\ base_deps["a"] = {<<"t1">>}
  /\ Len(result.joins) >= 1
  /\ JoinDetails(qualified)[1].left_table = <<"a">>
  /\ result.joins[1].left_table = <<"t1">>
  /\ <<"t1">> \in SeqToSet(result.sources)

====
